---------------------------- MODULE Spec2Model ----------------------------
(***************************************************************************)
(* A model of src/main.py: the HLTV results scraper.                       *)
(*                                                                         *)
(*   scrape_results_page  (Listing Stage)     lines   6 -  28              *)
(*   scrape_all_matches   (Orchestrator)      lines  30 -  55              *)
(*   scrape_match_stats   (Extraction Stage)  lines  57 - 168              *)
(*   save_to_csv          (Export Stage)      lines 171 - 203              *)
(*   __main__                                 lines 205 - 209              *)
(*                                                                         *)
(* Text is a TLA+ string.  A Python dict is a function whose domain is the *)
(* set of its keys ({} is << >>).  A lookup that may find nothing          *)
(* (soup.find, which returns a Tag or None) is a sequence of length 0 or   *)
(* 1.  An HTTP fetch is a response record: ok = FALSE is any failure that  *)
(* makes scraper.get / raise_for_status raise.  A call that may raise      *)
(* returns [raised |-> TRUE] or [raised |-> FALSE, value |-> v].           *)
(***************************************************************************)
EXTENDS Integers, Sequences, FiniteSets, TLC

VARIABLES
    \* scrape_all_matches / __main__
    pc,               \* where the run is: list, extract, export, done, aborted, export_failed
    offset,           \* the loop variable of line 39
    match_urls,       \* line 41
    url_i,            \* position of the for loop of line 43 in match_urls
    all_match_stats,  \* line 36
    csv_file,         \* the lines save_to_csv wrote (<< >> before it ran)
    calls,            \* history: the stage calls made so far, in order
    \* the stages taken alone, on one input each
    results_page,     \* a listing response
    listing_out,      \* << >>, or <<the result of scrape_results_page>>
    stats_table,      \* one <table> of a match page
    team_out,         \* << >>, or <<what the table loop body made of it>>
    match_page,       \* a match page response
    stats_out,        \* << >>, or <<the result of scrape_match_stats>>
    data_in,          \* a sequence of match records
    rows_out          \* << >>, or <<the lines save_to_csv writes for data_in>>

orchVars == <<pc, offset, match_urls, url_i, all_match_stats, csv_file, calls>>
listVars == <<results_page, listing_out>>
tableVars == <<stats_table, team_out>>
pageVars == <<match_page, stats_out>>
exportVars == <<data_in, rows_out>>
vars == <<orchVars, listVars, tableVars, pageVars, exportVars>>

(***************************************************************************)
(* Python helpers                                                          *)
(***************************************************************************)

\* str.startswith
StartsWith(s, prefix) ==
    /\ Len(s) >= Len(prefix)
    /\ SubSeq(s, 1, Len(prefix)) = prefix

\* dict.get(key, default) and Tag.get(key, default)
Get(d, key, default) == IF key \in DOMAIN d THEN d[key] ELSE default

\* d[key] = value
DictSet(d, key, value) ==
    [k \in DOMAIN d \cup {key} |-> IF k = key THEN value ELSE d[k]]

\* " ".join(tokens)
RECURSIVE Join(_)
Join(tokens) ==
    IF Len(tokens) = 0 THEN ""
    ELSE IF Len(tokens) = 1 THEN tokens[1]
    ELSE tokens[1] \o " " \o Join(Tail(tokens))

\* str.strip() of leading blanks
RECURSIVE LStrip(_)
LStrip(s) ==
    IF Len(s) > 0 /\ SubSeq(s, 1, 1) = " " THEN LStrip(SubSeq(s, 2, Len(s))) ELSE s

\* str.strip() of trailing blanks
RECURSIVE RStrip(_)
RStrip(s) ==
    IF Len(s) > 0 /\ SubSeq(s, Len(s), Len(s)) = " "
    THEN RStrip(SubSeq(s, 1, Len(s) - 1)) ELSE s

\* get_text(strip=True) of an element holding one text node
GetTextStrip(s) == RStrip(LStrip(s))

Raised == [raised |-> TRUE]
Returned(v) == [raised |-> FALSE, value |-> v]

(***************************************************************************)
(* Listing Stage: scrape_results_page                                      *)
(***************************************************************************)

SiteOrigin == "https://www.hltv.org"

\* lines 23-26 with the origin dropped: the reference is always used as it is
FullUrlAsIs(relative_url) == relative_url

\* lines 23-26
FullUrl(relative_url) ==
    IF StartsWith(relative_url, "/")
    THEN SiteOrigin \o relative_url
    ELSE relative_url

\* lines 19-27: one pass of the loop body; result_con.anchor is the result of
\* result_con.find("a", class_="a-reset"), holding the anchor's attributes
ListingStep(match_urls_, result_con) ==
    IF Len(result_con.anchor) > 0
    THEN Append(match_urls_, FullUrl(Get(result_con.anchor[1], "href", "")))
    ELSE match_urls_

\* lines 16-28: the loop over soup.find_all("div", class_="result-con")
RECURSIVE ListingLoop(_, _)
ListingLoop(match_urls_, result_cons) ==
    IF Len(result_cons) = 0 THEN match_urls_
    ELSE ListingLoop(ListingStep(match_urls_, Head(result_cons)), Tail(result_cons))

\* lines 6-28
scrape_results_page(response) ==
    IF ~response.ok THEN Raised
    ELSE Returned(ListingLoop(<< >>, response.result_cons))

(***************************************************************************)
(* Extraction Stage: scrape_match_stats                                    *)
(*                                                                         *)
(* A <table> is [attrs, trs]: its attributes and its descendant <tr>s in   *)
(* document order.  A <tr> is [attrs, team_link, tds]: team_link is the    *)
(* text of its a.teamName (if any), tds its <td>s.  A <td> is [link,       *)
(* text]: link is the text of its first a[href] (if any).                  *)
(***************************************************************************)

MinCells == 6

\* bs4's match of class_="name": one of the class tokens, or the whole value
HasClass(tag, name) ==
    /\ "class" \in DOMAIN tag.attrs
    /\ \/ \E i \in 1..Len(tag.attrs["class"]) : tag.attrs["class"][i] = name
       \/ Join(tag.attrs["class"]) = name

\* line 115: class_=lambda c: c == "" (a tag without the attribute gives c = None)
IsPlayerRow(tr) == HasClass(tr, "")

\* lines 136-162: the PlayerRow of a row with enough cells
PlayerData(cols) ==
    [player     |-> IF Len(cols[1].link) > 0
                    THEN GetTextStrip(cols[1].link[1]) ELSE "N/A",
     kd         |-> GetTextStrip(cols[2].text),
     plus_minus |-> GetTextStrip(cols[3].text),
     adr        |-> GetTextStrip(cols[4].text),
     kast       |-> GetTextStrip(cols[5].text),
     rating     |-> GetTextStrip(cols[6].text)]

\* lines 132-163 with the cell test off by one: a row needs more than 6 cells
PlayerStepOffByOne(players, row) ==
    IF Len(row.tds) <= MinCells THEN players
    ELSE Append(players, PlayerData(row.tds))

\* lines 132-163: one pass of the row loop body
PlayerStep(players, row) ==
    IF Len(row.tds) < MinCells THEN players
    ELSE Append(players, PlayerData(row.tds))

\* lines 124-163: the loop over player_rows
RECURSIVE PlayerLoop(_, _)
PlayerLoop(players, player_rows) ==
    IF Len(player_rows) = 0 THEN players
    ELSE PlayerLoop(PlayerStep(players, Head(player_rows)), Tail(player_rows))

\* line 100: table.find("tr", class_="header-row"), the first match if any
RECURSIVE FindHeaderRow(_)
FindHeaderRow(trs) ==
    IF Len(trs) = 0 THEN << >>
    ELSE IF HasClass(Head(trs), "header-row") THEN <<Head(trs)>>
    ELSE FindHeaderRow(Tail(trs))

\* lines 105-110
TeamName(header_tr) ==
    IF Len(header_tr.team_link) = 0 THEN "Unknown"
    ELSE GetTextStrip(header_tr.team_link[1])

\* lines 97-166 with the header test dropped: a table without a header row is
\* kept under the fallback name
TableStepKeepAll(teamStats, table) ==
    LET header_tr == FindHeaderRow(table.trs)
    IN  Append(teamStats,
               [teamName  |-> IF Len(header_tr) = 0 THEN "Unknown"
                              ELSE TeamName(header_tr[1]),
                tableType |-> Join(Get(table.attrs, "class", << >>)),
                players   |-> PlayerLoop(<< >>, SelectSeq(table.trs, IsPlayerRow))])

\* lines 97-166: one pass of the table loop body
TableStep(teamStats, table) ==
    LET table_class == Join(Get(table.attrs, "class", << >>))
        header_tr == FindHeaderRow(table.trs)
    IN  IF Len(header_tr) = 0 THEN teamStats
        ELSE Append(teamStats,
                    [teamName  |-> TeamName(header_tr[1]),
                     tableType |-> table_class,
                     players   |-> PlayerLoop(<< >>, SelectSeq(table.trs, IsPlayerRow))])

\* lines 95-166: the loop over the direct child tables of all-content
RECURSIVE TableLoop(_, _)
TableLoop(teamStats, tables) ==
    IF Len(tables) = 0 THEN teamStats
    ELSE TableLoop(TableStep(teamStats, Head(tables)), Tail(tables))

\* lines 57-168 with the two early returns turned into errors
scrape_match_stats_strict(response) ==
    IF ~response.ok THEN Raised
    ELSE IF Len(response.matchstats) = 0 THEN Raised
    ELSE IF Len(response.matchstats[1].all_content) = 0 THEN Raised
    ELSE Returned([teamStats |->
                      TableLoop(<< >>, response.matchstats[1].all_content[1])])

\* lines 57-168; response.matchstats is soup.find("div", class_="matchstats"),
\* its all_content is find("div", id="all-content"), holding the direct child tables
scrape_match_stats(response) ==
    IF ~response.ok THEN Raised
    ELSE IF Len(response.matchstats) = 0 THEN Returned(<< >>)
    ELSE IF Len(response.matchstats[1].all_content) = 0 THEN Returned(<< >>)
    ELSE Returned([teamStats |->
                      TableLoop(<< >>, response.matchstats[1].all_content[1])])

(***************************************************************************)
(* Export Stage: save_to_csv                                               *)
(***************************************************************************)

\* line 198
fieldnames ==
    <<"match_url", "teamName", "tableType", "player", "kd", "plus_minus",
      "adr", "kast", "rating">>

\* lines 185-195
FlatRow(match_url, team_name, table_type, player) ==
    [match_url  |-> match_url,
     teamName   |-> team_name,
     tableType  |-> table_type,
     player     |-> Get(player, "player", ""),
     kd         |-> Get(player, "kd", ""),
     plus_minus |-> Get(player, "plus_minus", ""),
     adr        |-> Get(player, "adr", ""),
     kast       |-> Get(player, "kast", ""),
     rating     |-> Get(player, "rating", "")]

\* lines 184-196: the loop over the players of one team
RECURSIVE ExportPlayers(_, _, _, _, _)
ExportPlayers(rows, match_url, team_name, table_type, players) ==
    IF Len(players) = 0 THEN rows
    ELSE ExportPlayers(Append(rows, FlatRow(match_url, team_name, table_type, Head(players))),
                       match_url, team_name, table_type, Tail(players))

\* lines 182-196 with rows.append turned into an insert at the front
ExportTeamReversed(rows, match_url, team) ==
    LET one == ExportPlayers(<< >>, match_url, Get(team, "teamName", ""),
                             Get(team, "tableType", ""), Get(team, "players", << >>))
    IN  [i \in 1..Len(one) |-> one[Len(one) + 1 - i]] \o rows

\* lines 182-196 with one row written for a team that has no players
ExportTeamPadded(rows, match_url, team) ==
    IF Len(Get(team, "players", << >>)) = 0
    THEN Append(rows, FlatRow(match_url, Get(team, "teamName", ""),
                              Get(team, "tableType", ""), << >>))
    ELSE ExportPlayers(rows, match_url, Get(team, "teamName", ""),
                       Get(team, "tableType", ""), Get(team, "players", << >>))

\* lines 182-196: one pass of the team loop body
ExportTeam(rows, match_url, team) ==
    ExportPlayers(rows, match_url, Get(team, "teamName", ""),
                  Get(team, "tableType", ""), Get(team, "players", << >>))

\* lines 181-196: the loop over the teams of one match
RECURSIVE ExportTeams(_, _, _)
ExportTeams(rows, match_url, teams) ==
    IF Len(teams) = 0 THEN rows
    ELSE ExportTeams(ExportTeam(rows, match_url, Head(teams)), match_url, Tail(teams))

\* lines 179-196: the loop over the matches
RECURSIVE ExportMatches(_, _)
ExportMatches(rows, data) ==
    IF Len(data) = 0 THEN rows
    ELSE ExportMatches(ExportTeams(rows, Get(Head(data), "match_url", ""),
                                   Get(Head(data), "teamStats", << >>)),
                       Tail(data))

\* csv.DictWriter: a dict is written as its values in fieldnames order
CsvLine(row) == [i \in 1..Len(fieldnames) |-> row[fieldnames[i]]]

\* lines 171-203: the lines of the file, the header first
save_to_csv(data) ==
    LET rows == ExportMatches(<< >>, data)
    IN  <<fieldnames>> \o [i \in 1..Len(rows) |-> CsvLine(rows[i])]

(***************************************************************************)
(* Inputs: what the site may serve                                         *)
(***************************************************************************)

MaxContainers == 3
MaxRows == 3
MaxTables == 2
MaxMatches == 3

SeqsUpTo(S, n) == UNION {[1..k -> S] : k \in 0..n}

\* div.result-con elements: without an a.a-reset, with one that has no href,
\* and with one whose href is site-relative, absolute, or of another form
NoAnchor == [anchor |-> << >>]
Anchor(attrs) == [anchor |-> <<attrs>>]
RelativeRef == "/matches/1/a"
AbsoluteRef == "https://example.test/matches/2/b"
OtherRef == "matches/3/c"
ListingContainers ==
    {NoAnchor, Anchor([class |-> "a-reset"])}
        \cup {Anchor([class |-> "a-reset", href |-> r]) :
                 r \in {RelativeRef, AbsoluteRef, OtherRef}}

FailedListing == [ok |-> FALSE, result_cons |-> << >>]
ListingPage(result_cons) == [ok |-> TRUE, result_cons |-> result_cons]
ListingResponses ==
    {FailedListing}
        \cup {ListingPage(cs) : cs \in SeqsUpTo(ListingContainers, MaxContainers)}

\* <td>s and <tr>s
Td(text) == [link |-> << >>, text |-> text]
LinkTd(name) == [link |-> <<name>>, text |-> name]
EmptyClass == [class |-> << >>]
HeaderTeamA ==
    [attrs |-> [class |-> <<"header-row">>], team_link |-> <<" TeamA ">>, tds |-> << >>]
HeaderNoLink ==
    [attrs |-> [class |-> <<"header-row">>], team_link |-> << >>, tds |-> << >>]
RowJks ==
    [attrs |-> EmptyClass, team_link |-> << >>,
     tds |-> <<LinkTd("jks"), Td("20-15"), Td("+5"), Td("85.3"), Td("75.0%"), Td(" 1.21 ")>>]
RowNoLink ==
    [attrs |-> EmptyClass, team_link |-> << >>,
     tds |-> <<Td("anon"), Td("10-18"), Td("-8"), Td("60.1"), Td("61.5%"), Td("0.84"),
               Td("extra")>>]
RowShort ==
    [attrs |-> EmptyClass, team_link |-> << >>,
     tds |-> <<LinkTd("short"), Td("1-2"), Td("-1"), Td("10.0"), Td("50.0%")>>]
RowNoClass ==
    [attrs |-> [id |-> "r"], team_link |-> << >>,
     tds |-> <<LinkTd("other"), Td("3-3"), Td("0"), Td("30.0"), Td("60.0%"), Td("1.00")>>]
TrSamples == {HeaderTeamA, HeaderNoLink, RowJks, RowNoLink, RowShort, RowNoClass}

TotalStats == [class |-> <<"table", "totalstats">>]
CtStats == [class |-> <<"table", "ctstats">>]
Table(attrs, trs) == [attrs |-> attrs, trs |-> trs]

\* one table, any rows in any order
StatsTables ==
    {Table(a, trs) : a \in {TotalStats, [id |-> "t"]}, trs \in SeqsUpTo(TrSamples, MaxRows)}

\* the tables of whole pages: a header (or none) followed by player rows
TableSamples ==
    {Table(a, h \o b) : a \in {TotalStats, CtStats},
                        h \in {<< >>, <<HeaderNoLink>>, <<HeaderTeamA>>},
                        b \in {<< >>, <<RowJks>>, <<RowShort, RowNoLink>>}}

FailedFetch == [ok |-> FALSE, matchstats |-> << >>]
NoStatsPage == [ok |-> TRUE, matchstats |-> << >>]
NoAllMapsPage == [ok |-> TRUE, matchstats |-> <<[all_content |-> << >>]>>]
StatsPage(tables) == [ok |-> TRUE, matchstats |-> <<[all_content |-> <<tables>>]>>]
MatchResponses ==
    {FailedFetch, NoStatsPage, NoAllMapsPage}
        \cup {StatsPage(ts) : ts \in SeqsUpTo(TableSamples, MaxTables)}

Url1 == SiteOrigin \o RelativeRef
Url2 == AbsoluteRef

\* match records as scrape_all_matches accumulates them (lines 47-50)
ExportPages ==
    {NoStatsPage,
     StatsPage(<< >>),
     StatsPage(<<Table(TotalStats, <<HeaderTeamA, RowJks, RowNoLink>>),
                 Table(CtStats, <<HeaderNoLink, RowJks>>)>>),
     StatsPage(<<Table(TotalStats, <<HeaderNoLink>>),
                 Table(CtStats, <<HeaderTeamA, RowNoLink>>)>>)}
MatchSamples ==
    {DictSet(scrape_match_stats(p).value, "match_url", u) :
        p \in ExportPages, u \in {Url1, Url2}}

(***************************************************************************)
(* The stages taken alone                                                  *)
(***************************************************************************)

OrchIdle ==
    /\ pc = "idle"
    /\ offset = 0
    /\ match_urls = << >>
    /\ url_i = 1
    /\ all_match_stats = << >>
    /\ csv_file = << >>
    /\ calls = << >>
ListIdle == results_page = FailedListing /\ listing_out = << >>
TableIdle == stats_table = Table(TotalStats, << >>) /\ team_out = << >>
PageIdle == match_page = FailedFetch /\ stats_out = << >>
ExportIdle == data_in = << >> /\ rows_out = << >>

InitListing ==
    /\ results_page \in ListingResponses
    /\ listing_out = << >>
    /\ OrchIdle /\ TableIdle /\ PageIdle /\ ExportIdle

RunListing ==
    /\ listing_out = << >>
    /\ listing_out' = <<scrape_results_page(results_page)>>
    /\ UNCHANGED <<results_page, orchVars, tableVars, pageVars, exportVars>>

SpecListing == InitListing /\ [][RunListing]_vars

InitTable ==
    /\ stats_table \in StatsTables
    /\ team_out = << >>
    /\ OrchIdle /\ ListIdle /\ PageIdle /\ ExportIdle

RunTable ==
    /\ team_out = << >>
    /\ team_out' = <<TableStep(<< >>, stats_table)>>
    /\ UNCHANGED <<stats_table, orchVars, listVars, pageVars, exportVars>>

SpecTable == InitTable /\ [][RunTable]_vars

InitExtract ==
    /\ match_page \in MatchResponses
    /\ stats_out = << >>
    /\ OrchIdle /\ ListIdle /\ TableIdle /\ ExportIdle

RunExtract ==
    /\ stats_out = << >>
    /\ stats_out' = <<scrape_match_stats(match_page)>>
    /\ UNCHANGED <<match_page, orchVars, listVars, tableVars, exportVars>>

SpecExtract == InitExtract /\ [][RunExtract]_vars

InitExport ==
    /\ data_in \in SeqsUpTo(MatchSamples, MaxMatches)
    /\ rows_out = << >>
    /\ OrchIdle /\ ListIdle /\ TableIdle /\ PageIdle

RunExport ==
    /\ rows_out = << >>
    /\ rows_out' = <<save_to_csv(data_in)>>
    /\ UNCHANGED <<data_in, orchVars, listVars, tableVars, pageVars>>

SpecExport == InitExport /\ [][RunExport]_vars

(***************************************************************************)
(* Orchestrator: scrape_all_matches, then save_to_csv (__main__)           *)
(***************************************************************************)

FirstOffset == 0
OffsetStop == 1100
OffsetStep == 100

\* the whole run sees at most MaxUrls result containers
MaxUrls == 2

OrchContainers ==
    {NoAnchor,
     Anchor([class |-> "a-reset", href |-> RelativeRef]),
     Anchor([class |-> "a-reset", href |-> AbsoluteRef])}
OrchMatchResponses ==
    {FailedFetch, NoStatsPage, NoAllMapsPage,
     StatsPage(<<Table(TotalStats, <<HeaderTeamA, RowJks>>)>>)}

ListCall(off, response) == [op |-> "list", offset |-> off, response |-> response]
ExtractCall(url, response) == [op |-> "extract", url |-> url, response |-> response]
ExportCall(ok) == [op |-> "export", ok |-> ok]

RECURSIVE ContainersSeen(_)
ContainersSeen(log) ==
    IF Len(log) = 0 THEN 0
    ELSE (IF Head(log).op = "list" THEN Len(Head(log).response.result_cons) ELSE 0)
         + ContainersSeen(Tail(log))

\* the pages without a result container that the run has fetched
EmptyPagesSeen ==
    Cardinality({i \in 1..Len(calls) :
                    /\ calls[i].op = "list"
                    /\ calls[i].response.ok
                    /\ Len(calls[i].response.result_cons) = 0})

\* result containers come back on the pages up to the one after the MaxGaps-th
\* page without any: every page after that is without one too
MaxGaps == 1
ResultsExhausted == EmptyPagesSeen > MaxGaps

OrchListingResponses ==
    {FailedListing}
        \cup {ListingPage(cs) :
                 cs \in SeqsUpTo(OrchContainers,
                                 IF ResultsExhausted THEN 0
                                 ELSE MaxUrls - ContainersSeen(calls))}

\* lines 39 and 43 with the stop value taken as one more offset to scrape
AdvanceInclusive(urls, i, off) ==
    IF i <= Len(urls) THEN [pc |-> "extract", offset |-> off]
    ELSE IF off + OffsetStep <= OffsetStop THEN [pc |-> "list", offset |-> off + OffsetStep]
    ELSE [pc |-> "export", offset |-> off]

\* lines 39 and 43: where the two for loops go once position i - 1 of urls is done
Advance(urls, i, off) ==
    IF i <= Len(urls) THEN [pc |-> "extract", offset |-> off]
    ELSE IF off + OffsetStep < OffsetStop THEN [pc |-> "list", offset |-> off + OffsetStep]
    ELSE [pc |-> "export", offset |-> off]

Init ==
    /\ pc = "list"
    /\ offset = FirstOffset
    /\ match_urls = << >>
    /\ url_i = 1
    /\ all_match_stats = << >>
    /\ csv_file = << >>
    /\ calls = << >>
    /\ ListIdle /\ TableIdle /\ PageIdle /\ ExportIdle

\* lines 39-42 with the listing call wrapped in a try: a failed page counts as empty
CallListingCaught ==
    /\ pc = "list"
    /\ \E response \in OrchListingResponses :
          LET r == scrape_results_page(response)
              urls == IF r.raised THEN << >> ELSE r.value
              next == Advance(urls, 1, offset)
          IN  /\ calls' = Append(calls, ListCall(offset, response))
              /\ match_urls' = urls
              /\ url_i' = 1
              /\ pc' = next.pc
              /\ offset' = next.offset
              /\ UNCHANGED <<all_match_stats, csv_file>>
    /\ UNCHANGED <<listVars, tableVars, pageVars, exportVars>>

\* lines 39-42: the next offset's listing; an error leaves scrape_all_matches and
\* __main__ (lines 207-209), so save_to_csv is not reached
CallListing ==
    /\ pc = "list"
    /\ \E response \in OrchListingResponses :
          LET r == scrape_results_page(response)
          IN  /\ calls' = Append(calls, ListCall(offset, response))
              /\ IF r.raised
                 THEN /\ pc' = "aborted"
                      /\ UNCHANGED <<offset, match_urls, url_i>>
                 ELSE LET next == Advance(r.value, 1, offset)
                      IN  /\ match_urls' = r.value
                          /\ url_i' = 1
                          /\ pc' = next.pc
                          /\ offset' = next.offset
              /\ UNCHANGED <<all_match_stats, csv_file>>
    /\ UNCHANGED <<listVars, tableVars, pageVars, exportVars>>

\* lines 43-54 without the try: an extraction error ends the run
CallExtractionUncaught ==
    /\ pc = "extract"
    /\ \E response \in OrchMatchResponses :
          LET url == match_urls[url_i]
              r == scrape_match_stats(response)
              next == Advance(match_urls, url_i + 1, offset)
          IN  /\ calls' = Append(calls, ExtractCall(url, response))
              /\ IF r.raised
                 THEN /\ pc' = "aborted"
                      /\ UNCHANGED <<offset, url_i, all_match_stats>>
                 ELSE /\ all_match_stats' =
                            Append(all_match_stats, DictSet(r.value, "match_url", url))
                      /\ url_i' = url_i + 1
                      /\ pc' = next.pc
                      /\ offset' = next.offset
              /\ UNCHANGED <<match_urls, csv_file>>
    /\ UNCHANGED <<listVars, tableVars, pageVars, exportVars>>

\* lines 43-54: one pass of the url loop body (time.sleep changes no state)
CallExtraction ==
    /\ pc = "extract"
    /\ \E response \in OrchMatchResponses :
          LET url == match_urls[url_i]
              r == scrape_match_stats(response)
              next == Advance(match_urls, url_i + 1, offset)
          IN  /\ calls' = Append(calls, ExtractCall(url, response))
              /\ all_match_stats' =
                    IF r.raised THEN all_match_stats
                    ELSE Append(all_match_stats, DictSet(r.value, "match_url", url))
              /\ url_i' = url_i + 1
              /\ pc' = next.pc
              /\ offset' = next.offset
              /\ UNCHANGED <<match_urls, csv_file>>
    /\ UNCHANGED <<listVars, tableVars, pageVars, exportVars>>

\* lines 207-209: scrape_all_matches returned; save_to_csv writes the file, or
\* open() fails and the run ends with that error
CallExport ==
    /\ pc = "export"
    /\ \E ok \in BOOLEAN :
          /\ calls' = Append(calls, ExportCall(ok))
          /\ IF ok
             THEN csv_file' = save_to_csv(all_match_stats) /\ pc' = "done"
             ELSE csv_file' = csv_file /\ pc' = "export_failed"
    /\ UNCHANGED <<offset, match_urls, url_i, all_match_stats>>
    /\ UNCHANGED <<listVars, tableVars, pageVars, exportVars>>

Next == CallListing \/ CallExtraction \/ CallExport

Spec == Init /\ [][Next]_vars

(***************************************************************************)
(* Properties of the Listing Stage (under SpecListing)                     *)
(***************************************************************************)

HasAnchor(result_con) == Len(result_con.anchor) > 0
RefOf(result_con) == Get(result_con.anchor[1], "href", "")
IsAbsolute(url) == StartsWith(url, "https://") \/ StartsWith(url, "http://")
ListingReturned == Len(listing_out) = 1 /\ ~listing_out[1].raised

\* C6: the Listing Stage returns one URL per result container that has an anchor,
\* in page order, and nothing for a container without one (so N containers that
\* all have an anchor give N URLs); a reference starting with "/" becomes the site
\* origin followed by it, and an absolute reference is returned unchanged.
C6_OneUrlPerAnchor ==
    (Len(listing_out) = 1 /\ results_page.ok) =>
        LET anchored == SelectSeq(results_page.result_cons, HasAnchor)
        IN  /\ ~listing_out[1].raised
            /\ Len(listing_out[1].value) = Len(anchored)
            /\ \A k \in 1..Len(anchored) :
                  /\ StartsWith(RefOf(anchored[k]), "/") =>
                        listing_out[1].value[k] = "https://www.hltv.org" \o RefOf(anchored[k])
                  /\ IsAbsolute(RefOf(anchored[k])) =>
                        listing_out[1].value[k] = RefOf(anchored[k])
            /\ (\A i \in 1..Len(results_page.result_cons) :
                    HasAnchor(results_page.result_cons[i]))
                 => Len(listing_out[1].value) = Len(results_page.result_cons)

\* a page with a container without an anchor between a site-relative and an
\* absolute reference has been listed
C6_Witness ==
    /\ ListingReturned
    /\ Len(results_page.result_cons) = 3
    /\ HasAnchor(results_page.result_cons[1])
    /\ RefOf(results_page.result_cons[1]) = RelativeRef
    /\ ~HasAnchor(results_page.result_cons[2])
    /\ HasAnchor(results_page.result_cons[3])
    /\ RefOf(results_page.result_cons[3]) = AbsoluteRef
    /\ listing_out[1].value = <<Url1, Url2>>

\* C7: every string the Listing Stage returns is an absolute URL, whatever the
\* anchor's reference is (site-relative, absolute, of another form, or missing).
C7_AllUrlsAbsolute ==
    ListingReturned =>
        \A k \in 1..Len(listing_out[1].value) : IsAbsolute(listing_out[1].value[k])

(***************************************************************************)
(* Properties of the row loop of one table (under SpecTable)               *)
(***************************************************************************)

HasEnoughCells(row) == Len(row.tds) >= 6
HasHeaderRow(table) == \E i \in 1..Len(table.trs) : HasClass(table.trs[i], "header-row")
TableDone == Len(team_out) = 1

\* C8: within one statistics table, a selected row with fewer than 6 cells gives
\* no PlayerRow and no error, every selected row with at least 6 cells gives
\* exactly one, and the TeamBlock's players are the selected rows with at least
\* 6 cells in table order (cells 2..6 as trimmed text).  The rows are selected,
\* and the TeamBlock made, only for a table that has a header row.
C8_ShortRowsSkipped ==
    (TableDone /\ HasHeaderRow(stats_table)) =>
        LET valid == SelectSeq(SelectSeq(stats_table.trs, IsPlayerRow), HasEnoughCells)
        IN  /\ Len(team_out[1]) = 1
            /\ Len(team_out[1][1].players) = Len(valid)
            /\ \A k \in 1..Len(valid) :
                  /\ team_out[1][1].players[k].kd = GetTextStrip(valid[k].tds[2].text)
                  /\ team_out[1][1].players[k].plus_minus = GetTextStrip(valid[k].tds[3].text)
                  /\ team_out[1][1].players[k].adr = GetTextStrip(valid[k].tds[4].text)
                  /\ team_out[1][1].players[k].kast = GetTextStrip(valid[k].tds[5].text)
                  /\ team_out[1][1].players[k].rating = GetTextStrip(valid[k].tds[6].text)

\* a table whose header row is followed by a short row and then a valid row has
\* been processed, and its TeamBlock holds the valid row alone
C8_Witness ==
    /\ TableDone
    /\ stats_table.trs = <<HeaderTeamA, RowShort, RowJks>>
    /\ Len(team_out[1]) = 1
    /\ Len(team_out[1][1].players) = 1
    /\ team_out[1][1].players[1].player = "jks"
    /\ team_out[1][1].players[1].rating = "1.21"

(***************************************************************************)
(* Properties of the Extraction Stage (under SpecExtract)                  *)
(***************************************************************************)

HasTables(response) ==
    /\ response.ok
    /\ Len(response.matchstats) = 1
    /\ Len(response.matchstats[1].all_content) = 1
TablesOf(response) == response.matchstats[1].all_content[1]
FirstHeader(table) ==
    table.trs[CHOOSE i \in 1..Len(table.trs) :
                 /\ HasClass(table.trs[i], "header-row")
                 /\ \A j \in 1..(i - 1) : ~HasClass(table.trs[j], "header-row")]
ExpectedTeamName(table) ==
    IF HasHeaderRow(table) /\ Len(FirstHeader(table).team_link) = 1
    THEN GetTextStrip(FirstHeader(table).team_link[1])
    ELSE "Unknown"
ValidRows(table) == SelectSeq(SelectSeq(table.trs, IsPlayerRow), HasEnoughCells)
BlockMatches(block, table) ==
    /\ block.teamName = ExpectedTeamName(table)
    /\ block.tableType = Join(Get(table.attrs, "class", << >>))
    /\ Len(block.players) = Len(ValidRows(table))
ExtractDone == Len(stats_out) = 1

\* C10 as stated: every direct child table of the all-maps node gives exactly one
\* TeamBlock, in table order, named "Unknown" when the header row or its team link
\* is absent, with the table's player rows extracted.
C10_Original ==
    (ExtractDone /\ HasTables(match_page)) =>
        /\ ~stats_out[1].raised
        /\ Len(stats_out[1].value.teamStats) = Len(TablesOf(match_page))
        /\ \A k \in 1..Len(TablesOf(match_page)) :
              BlockMatches(stats_out[1].value.teamStats[k], TablesOf(match_page)[k])

\* C10 as amended: every direct child table of the all-maps node that has a header
\* row gives exactly one TeamBlock, in table order, named "Unknown" when the
\* header row has no team link, with the table's player rows extracted; a table
\* without a header row gives no TeamBlock.
C10_OneBlockPerHeadedTable ==
    (ExtractDone /\ HasTables(match_page)) =>
        LET headed == SelectSeq(TablesOf(match_page), HasHeaderRow)
        IN  /\ ~stats_out[1].raised
            /\ Len(stats_out[1].value.teamStats) = Len(headed)
            /\ \A k \in 1..Len(headed) :
                  BlockMatches(stats_out[1].value.teamStats[k], headed[k])

\* a page whose first table has no header row and whose second has a header row
\* without a team link, both with a valid player row, has been extracted
C10_Witness ==
    /\ ExtractDone
    /\ HasTables(match_page)
    /\ Len(TablesOf(match_page)) = 2
    /\ TablesOf(match_page)[1].trs = <<RowJks>>
    /\ TablesOf(match_page)[2].trs = <<HeaderNoLink, RowJks>>
    /\ Len(stats_out[1].value.teamStats) = 1
    /\ stats_out[1].value.teamStats[1].teamName = "Unknown"
    /\ Len(stats_out[1].value.teamStats[1].players) = 1

(***************************************************************************)
(* Properties of the Export Stage (under SpecExport)                       *)
(***************************************************************************)

TeamsOf(match) == Get(match, "teamStats", << >>)
PlayersOf(team) == Get(team, "players", << >>)

RECURSIVE TeamPlayerCount(_)
TeamPlayerCount(teams) ==
    IF Len(teams) = 0 THEN 0
    ELSE Len(PlayersOf(Head(teams))) + TeamPlayerCount(Tail(teams))

RECURSIVE PlayerCount(_)
PlayerCount(data) ==
    IF Len(data) = 0 THEN 0
    ELSE TeamPlayerCount(TeamsOf(Head(data))) + PlayerCount(Tail(data))

ExportDone == Len(rows_out) = 1
\* the FlatRows written: the lines of the file after the header
FlatRowsOf(file) == SubSeq(file, 2, Len(file))

\* C4: the number of FlatRows written is the sum, over all MatchRecords and all
\* their TeamBlocks, of the TeamBlock's player count.
C4_RowCountIsPlayerCount ==
    ExportDone => Len(FlatRowsOf(rows_out[1])) = PlayerCount(data_in)

\* an export of a record without team blocks, a team block without players and a
\* team block with two players has been written
C4_Witness ==
    /\ ExportDone
    /\ \E i \in 1..Len(data_in) : "teamStats" \notin DOMAIN data_in[i]
    /\ \E i \in 1..Len(data_in) :
          \E t \in 1..Len(TeamsOf(data_in[i])) : Len(TeamsOf(data_in[i])[t].players) = 0
    /\ \E i \in 1..Len(data_in) :
          \E t \in 1..Len(TeamsOf(data_in[i])) : Len(TeamsOf(data_in[i])[t].players) = 2
    /\ Len(FlatRowsOf(rows_out[1])) >= 3

\* the (match, team, player) positions of the input, and their place in
\* match-then-team-then-player order
Positions(data) ==
    UNION {UNION {{<<m, t, q>> : q \in 1..Len(PlayersOf(TeamsOf(data[m])[t]))} :
                     t \in 1..Len(TeamsOf(data[m]))} :
              m \in 1..Len(data)}
Before(a, b) ==
    \/ a[1] < b[1]
    \/ a[1] = b[1] /\ a[2] < b[2]
    \/ a[1] = b[1] /\ a[2] = b[2] /\ a[3] < b[3]
Place(data, a) == 1 + Cardinality({b \in Positions(data) : Before(b, a)})

\* C5: the FlatRows are written in input order (matches, then teams within a
\* match, then players within a team), after the header line, and each carries
\* the match URL, team name and table variant label of the MatchRecord and
\* TeamBlock it came from, followed by the player's fields.
C5_RowsInInputOrder ==
    ExportDone =>
        /\ rows_out[1][1] = <<"match_url", "teamName", "tableType", "player", "kd",
                              "plus_minus", "adr", "kast", "rating">>
        /\ Len(FlatRowsOf(rows_out[1])) = Cardinality(Positions(data_in))
        /\ \A a \in Positions(data_in) :
              LET team == TeamsOf(data_in[a[1]])[a[2]]
                  player == team.players[a[3]]
              IN  FlatRowsOf(rows_out[1])[Place(data_in, a)] =
                      <<data_in[a[1]].match_url, team.teamName, team.tableType,
                        player.player, player.kd, player.plus_minus, player.adr,
                        player.kast, player.rating>>

\* an export of two matches with different URLs, the first with two team blocks
\* of different names and labels, one of them with two players, has been written
C5_Witness ==
    /\ ExportDone
    /\ Len(data_in) >= 2
    /\ data_in[1].match_url # data_in[2].match_url
    /\ Len(TeamsOf(data_in[1])) = 2
    /\ TeamsOf(data_in[1])[1].teamName # TeamsOf(data_in[1])[2].teamName
    /\ TeamsOf(data_in[1])[1].tableType # TeamsOf(data_in[1])[2].tableType
    /\ Len(TeamsOf(data_in[1])[1].players) = 2
    /\ Len(TeamsOf(data_in[1])[2].players) = 1
    /\ Len(TeamsOf(data_in[2])) >= 1
    /\ Len(FlatRowsOf(rows_out[1])) >= 4

(***************************************************************************)
(* Properties of the orchestrated run (under Spec)                         *)
(***************************************************************************)

IsList(call) == call.op = "list"
IsExtract(call) == call.op = "extract"
IsExport(call) == call.op = "export"
ExtractReturned(call) == ~scrape_match_stats(call.response).raised
LastCall == calls[Len(calls)]
Running == pc \in {"list", "extract", "export"}
Finished == pc \in {"done", "export_failed"}

\* the URLs the listing calls of a log returned, in order
RECURSIVE Discovered(_)
Discovered(log) ==
    IF Len(log) = 0 THEN << >>
    ELSE (IF IsList(Head(log)) /\ Head(log).response.ok
          THEN scrape_results_page(Head(log).response).value ELSE << >>)
         \o Discovered(Tail(log))

\* the URLs handed to the Extraction Stage, in call order
RECURSIVE Extracted(_)
Extracted(log) ==
    IF Len(log) = 0 THEN << >>
    ELSE (IF IsExtract(Head(log)) THEN <<Head(log).url>> ELSE << >>)
         \o Extracted(Tail(log))

\* the extraction calls of a log that did not raise, as <<url, returned record>>
RECURSIVE Kept(_)
Kept(log) ==
    IF Len(log) = 0 THEN << >>
    ELSE (IF IsExtract(Head(log)) /\ ExtractReturned(Head(log))
          THEN <<[url |-> Head(log).url,
                  stats |-> scrape_match_stats(Head(log).response).value]>>
          ELSE << >>)
         \o Kept(Tail(log))

\* C1: an Extraction call that raises is caught and adds no MatchRecord, and the
\* URLs after it are still extracted; the accumulated sequence is the records of
\* the URLs whose extraction did not raise, in discovery order, each tagged with
\* its URL, and once the crawl is over every discovered URL has been extracted.
C1_ExtractionErrorsContained ==
    /\ (Len(calls) > 0 /\ IsExtract(LastCall) /\ ~ExtractReturned(LastCall)) => Running
    /\ LET kept == Kept(calls)
       IN  /\ Len(all_match_stats) = Len(kept)
           /\ \A k \in 1..Len(all_match_stats) :
                 /\ all_match_stats[k].match_url = kept[k].url
                 /\ TeamsOf(all_match_stats[k]) = TeamsOf(kept[k].stats)
                 /\ DOMAIN all_match_stats[k] = DOMAIN kept[k].stats \cup {"match_url"}
    /\ LET found == Discovered(calls)
           done == Extracted(calls)
       IN  /\ Len(done) <= Len(found)
           /\ done = SubSeq(found, 1, Len(done))
           /\ (pc \in {"export", "done", "export_failed"}) => done = found

\* a finished run in which an extraction raised and a later one returned a
\* record, which is in the accumulated sequence under its URL
C1_Witness ==
    /\ pc = "done"
    /\ \E i \in 1..Len(calls) : \E j \in (i + 1)..Len(calls) :
          /\ IsExtract(calls[i]) /\ ~calls[i].response.ok
          /\ IsExtract(calls[j]) /\ calls[j].response.ok
          /\ Len(all_match_stats) = 1
          /\ all_match_stats[1].match_url = calls[j].url

\* C2: a Listing call that fails is not caught: it is the last call of the run,
\* which ends aborted, with no later Listing or Extraction call and no export,
\* whatever was accumulated before.
C2_ListingFailureAborts ==
    \A i \in 1..Len(calls) :
        (IsList(calls[i]) /\ ~calls[i].response.ok) =>
            /\ i = Len(calls)
            /\ pc = "aborted"
            /\ csv_file = << >>

\* a run aborted by the listing of a later offset, after records were accumulated
C2_Witness ==
    /\ pc = "aborted"
    /\ offset >= 100
    /\ Len(all_match_stats) > 0
    /\ ~LastCall.response.ok

LacksStats(response) ==
    /\ response.ok
    /\ \/ Len(response.matchstats) = 0
       \/ Len(response.matchstats[1].all_content) = 0
HasTeamStats(match) == "teamStats" \in DOMAIN match
FetchedLackingStats(call) == IsExtract(call) /\ LacksStats(call.response)

\* C3: for a fetched match page without the statistics container, or without the
\* all-maps sub-tab in it, the Extraction Stage raises no error and returns a
\* record with no TeamBlocks; the orchestrator accumulates it tagged with its
\* URL and goes on; such records stay in the accumulated sequence and add no
\* FlatRow to the export.
C3_MissingStatsGiveEmptyRecord ==
    /\ (Len(calls) > 0 /\ FetchedLackingStats(LastCall)) =>
          /\ ExtractReturned(LastCall)
          /\ Running
          /\ Len(all_match_stats) > 0
          /\ all_match_stats[Len(all_match_stats)] = [match_url |-> LastCall.url]
          /\ Len(TeamsOf(all_match_stats[Len(all_match_stats)])) = 0
    /\ Len(SelectSeq(calls, FetchedLackingStats))
          = Len(all_match_stats) - Len(SelectSeq(all_match_stats, HasTeamStats))
    /\ pc = "done" =>
          /\ FlatRowsOf(csv_file) =
                FlatRowsOf(save_to_csv(SelectSeq(all_match_stats, HasTeamStats)))
          /\ Len(FlatRowsOf(csv_file)) =
                PlayerCount(SelectSeq(all_match_stats, HasTeamStats))

\* a finished run that extracted a page without the container and then a page
\* without the all-maps sub-tab: both records are kept, the file has no FlatRow
C3_Witness ==
    /\ pc = "done"
    /\ Len(Extracted(calls)) = 2
    /\ SelectSeq(calls, IsExtract)[1].response = NoStatsPage
    /\ SelectSeq(calls, IsExtract)[2].response = NoAllMapsPage
    /\ all_match_stats =
          <<[match_url |-> Extracted(calls)[1]], [match_url |-> Extracted(calls)[2]]>>
    /\ Len(csv_file) = 1

\* log is, from the listing of offset off on, a whole run without a failed
\* listing: per offset up to 1000 the listing call and then one extraction call
\* per URL it returned, in order; after offset 1000, the export call alone
RECURSIVE IsRunFrom(_, _)
IsRunFrom(log, off) ==
    IF off > 1000 THEN Len(log) = 1 /\ IsExport(log[1])
    ELSE /\ Len(log) > 0
         /\ IsList(log[1])
         /\ log[1].offset = off
         /\ log[1].response.ok
         /\ LET urls == scrape_results_page(log[1].response).value
            IN  /\ Len(log) > Len(urls)
                /\ \A j \in 1..Len(urls) :
                      IsExtract(log[1 + j]) /\ log[1 + j].url = urls[j]
                /\ IsRunFrom(SubSeq(log, 2 + Len(urls), Len(log)), off + 100)

\* C9: in a run where no Listing call fails there are exactly 11 Listing calls,
\* for offsets 0, 100, ..., 1000 in this order; each is followed, before the
\* next Listing call, by one Extraction call per URL it returned, in listing
\* order, duplicates included; and the export is called once, last, after the
\* Extraction calls of offset 1000.
C9_RunShape ==
    /\ (Len(calls) > 0 /\ IsExport(LastCall)) => Finished
    /\ Finished =>
          /\ IsRunFrom(calls, 0)
          /\ Len(SelectSeq(calls, IsList)) = 11
          /\ Len(SelectSeq(calls, IsExport)) = 1

\* a finished run in which two listing pages returned the same URL, extracted twice
C9_Witness ==
    /\ pc = "done"
    /\ offset = 1000
    /\ \E i \in 1..Len(calls) : \E j \in (i + 2)..Len(calls) :
          /\ IsExtract(calls[i])
          /\ IsList(calls[i + 1])
          /\ IsExtract(calls[j])
          /\ calls[i].url = calls[j].url

=============================================================================
